---- MODULE Spec2Model ----
(***************************************************************************)
(* Model of mapper-prefix-stripper (src/mapper_prefix_stripper/mapper.py). *)
(*                                                                         *)
(* A field name is a Python str, modelled as a sequence of one-character   *)
(* strings, so that startswith and slicing are computed and not assumed.   *)
(* A Python dict (schema.properties, record, a STATE value) is modelled as *)
(* a sequence of <<key, value>> pairs with distinct keys, in insertion     *)
(* order.  A message dict is a TLA+ record; a key the dict lacks is a      *)
(* field the record lacks.                                                 *)
(***************************************************************************)
EXTENDS Integers, Sequences, FiniteSets, TLC

VARIABLES
    config,        \* self.config: the plugin configuration mapping
    pc,            \* where the process is: call/returned, read/dispatch/write/done/failed
    field,         \* the argument of a direct strip_prefix call
    new_field,     \* the value a direct strip_prefix call returned
    line,          \* the input message as it was read (never touched afterwards)
    message_dict,  \* the dict handed to the handler, which it mutates in place
    produced,      \* messages the handler yielded and the loop has not yet written
    stdin_read,    \* every message read so far, in order
    stdout,        \* every message written so far, in order
    error          \* the exception that ended the run, or "none"

vars == <<config, pc, field, new_field, line, message_dict, produced,
          stdin_read, stdout, error>>

----------------------------------------------------------------------------
(* Bounds *)

MaxFieldLen == 4
MaxPrefixLen == 2
MaxPrefixes == 2
MaxFields == 2
MaxMessages == 3

Chars == {"a", "_"}

StringsUpTo(n) == UNION {[1..k -> Chars] : k \in 0..n}

SeqsUpTo(S, n) == UNION {[1..k -> S] : k \in 0..n}

----------------------------------------------------------------------------
(* str and dict primitives *)

\* mutant of startswith: a field equal to the prefix does not count as a match
startswith_proper(s, prefix) ==
    /\ Len(prefix) < Len(s)
    /\ SubSeq(s, 1, Len(prefix)) = prefix

\* field.startswith(prefix)
startswith(s, prefix) ==
    /\ Len(prefix) <= Len(s)
    /\ SubSeq(s, 1, Len(prefix)) = prefix

\* s[n:]
slice_from(s, n) == SubSeq(s, n + 1, Len(s))

\* d.get(key, default)
config_get(d, key, default) ==
    IF key \in DOMAIN d THEN d[key] ELSE default

\* mutant of dict_set: d.setdefault(k, v), the first write wins
dict_setdefault(d, k, v) ==
    IF \E i \in 1..Len(d) : d[i][1] = k THEN d ELSE Append(d, <<k, v>>)

\* d[k] = v on an insertion-ordered dict: an existing key keeps its place
dict_set(d, k, v) ==
    IF \E i \in 1..Len(d) : d[i][1] = k
    THEN [i \in 1..Len(d) |-> IF d[i][1] = k THEN <<k, v>> ELSE d[i]]
    ELSE Append(d, <<k, v>>)

----------------------------------------------------------------------------
(* PrefixStripperMapper.strip_prefix *)

\* mutant of strip_loop: no return inside the loop, the last matching prefix wins
strip_loop_last(f, prefixes, i) ==
    LET matching == {j \in i..Len(prefixes) : startswith(f, prefixes[j])}
    IN  IF matching = {} THEN f
        ELSE LET last == CHOOSE j \in matching : \A k \in matching : k <= j
             IN  slice_from(f, Len(prefixes[last]))

\* mutant of strip_prefix: the startswith test is lost, the first prefix's
\* length is cut off whatever the field
strip_prefix_unguarded(cfg, f) ==
    LET prefixes == IF "strip_prefixes" \in DOMAIN cfg THEN cfg.strip_prefixes ELSE <<>>
    IN  IF prefixes = <<>> THEN f ELSE SubSeq(f, Len(prefixes[1]) + 1, Len(f))

RECURSIVE strip_loop(_, _, _)
\* for prefix in prefixes: if field.startswith(prefix): return field[len(prefix):]
strip_loop(f, prefixes, i) ==
    IF i > Len(prefixes) THEN f
    ELSE IF startswith(f, prefixes[i]) THEN slice_from(f, Len(prefixes[i]))
    ELSE strip_loop(f, prefixes, i + 1)

strip_prefix(cfg, f) ==
    strip_loop(f, config_get(cfg, "strip_prefixes", <<>>), 1)

----------------------------------------------------------------------------
(* The rename loop shared by map_schema_message and map_record_message *)

RECURSIVE rename_loop_only_renamed(_, _, _, _)
\* mutant of rename_loop: a field no prefix changes is not copied over
rename_loop_only_renamed(cfg, items, i, new) ==
    IF i > Len(items) THEN new
    ELSE rename_loop_only_renamed(cfg, items, i + 1,
            IF strip_prefix(cfg, items[i][1]) = items[i][1] THEN new
            ELSE dict_set(new, strip_prefix(cfg, items[i][1]), items[i][2]))

RECURSIVE rename_loop(_, _, _, _)
\* for field, value in items: new[self.strip_prefix(field)] = value
rename_loop(cfg, items, i, new) ==
    IF i > Len(items) THEN new
    ELSE rename_loop(cfg, items, i + 1,
                     dict_set(new, strip_prefix(cfg, items[i][1]), items[i][2]))

\* new = {}; the loop; the fresh mapping
rename_items(cfg, items) == rename_loop(cfg, items, 1, <<>>)

\* singer.<cls>.from_dict(message_dict): the message object of class cls
\* built from the dict's fields
from_dict(cls, d) == [cls |-> cls, fields |-> d]

----------------------------------------------------------------------------
(* Inputs *)

NoConfig == [k \in {} |-> <<>>]

NoMessage == [type |-> "NONE"]

Prefixes == StringsUpTo(MaxPrefixLen)

Fields == StringsUpTo(MaxFieldLen)

\* every configuration: strip_prefixes absent, or a list of prefixes
Configs ==
    {NoConfig} \cup {[strip_prefixes |-> P] : P \in SeqsUpTo(Prefixes, MaxPrefixes)}

\* field names that occur in messages: "a", "a_", "a_x", "x"
MapKeys == {<<"a">>, <<"a", "_">>, <<"a", "_", "x">>, <<"x">>}

MapPrefixes == {<<"a">>, <<"a", "_">>}

MapConfigs ==
    {NoConfig} \cup {[strip_prefixes |-> P] : P \in SeqsUpTo(MapPrefixes, MaxPrefixes)}

\* a schema value is opaque; one of them nests a property named "a_x"
SchemaValues ==
    { [type |-> "integer"],
      [type |-> "object",
       properties |-> << << <<"a", "_", "x">>, [type |-> "integer"] >> >>] }

RecordValues == {41, 42}

\* the dicts with at most MaxFields entries, keys distinct
Mappings(Keys, Values) ==
    { m \in SeqsUpTo(Keys \X Values, MaxFields) :
        \A i, j \in 1..Len(m) : i # j => m[i][1] # m[j][1] }

SchemaMessage(p) ==
    [type |-> "SCHEMA", stream |-> "users",
     schema |-> [type |-> "object", properties |-> p],
     key_properties |-> IF p = <<>> THEN <<>> ELSE <<p[1][1]>>]

SchemaNoProperties ==
    [type |-> "SCHEMA", stream |-> "users",
     schema |-> [type |-> "object"], key_properties |-> <<>>]

RecordMessage(r) ==
    [type |-> "RECORD", stream |-> "users", record |-> r,
     time_extracted |-> "2024-01-01T00:00:00Z", version |-> 1]

RecordNoRecord ==
    [type |-> "RECORD", stream |-> "users",
     time_extracted |-> "2024-01-01T00:00:00Z", version |-> 1]

StateMessage(v) == [type |-> "STATE", value |-> v]

ActivateVersionMessage(v) ==
    [type |-> "ACTIVATE_VERSION", stream |-> "users", version |-> v]

Messages ==
    {SchemaMessage(p) : p \in Mappings(MapKeys, SchemaValues)}
    \cup {SchemaNoProperties, RecordNoRecord}
    \cup {RecordMessage(r) : r \in Mappings(MapKeys, RecordValues)}
    \cup {StateMessage(v) : v \in Mappings(MapKeys, {41})}
    \cup {ActivateVersionMessage(v) : v \in {1, 2}}

\* the messages a stream is made of
StreamMessages ==
    { SchemaMessage(<< << <<"a", "_", "x">>, [type |-> "integer"] >>,
                       << <<"x">>, [type |-> "integer"] >> >>),
      SchemaNoProperties,
      RecordMessage(<< << <<"a", "_", "x">>, 41 >>, << <<"x">>, 42 >> >>),
      RecordMessage(<< << <<"a", "_">>, 41 >> >>),
      RecordNoRecord,
      StateMessage(<< << <<"a", "_", "x">>, 41 >> >>),
      ActivateVersionMessage(1) }

----------------------------------------------------------------------------
(* The handlers.  Each returns what a call leaves behind: self.config, the *)
(* message_dict it was handed (mutated in place), the messages it yielded  *)
(* and the exception it raised ("none" when it returned normally).         *)

Outcome(cfg, md, yielded, raised) ==
    [config |-> cfg, message_dict |-> md, yielded |-> yielded, raised |-> raised]

\* mutant of map_schema_message: key_properties are stripped as well
map_schema_message_strip_keys(cfg, md) ==
    IF "schema" \in DOMAIN md /\ "properties" \in DOMAIN md.schema
    THEN LET new_properties == rename_items(cfg, md.schema.properties)
             after == [md EXCEPT !.schema.properties = new_properties,
                                 !.key_properties =
                                     [i \in 1..Len(@) |-> strip_prefix(cfg, @[i])]]
         IN  Outcome(cfg, after, <<from_dict("SchemaMessage", after)>>, "none")
    ELSE Outcome(cfg, md, <<>>, "KeyError")

\* mutant of map_record_message: message_dict.get("record", {}), a message
\* without a record goes through with an empty one
map_record_message_default(cfg, md) ==
    LET record == IF "record" \in DOMAIN md THEN md.record ELSE <<>>
        after == [k \in DOMAIN md \cup {"record"} |->
                     IF k = "record" THEN rename_items(cfg, record) ELSE md[k]]
    IN  Outcome(cfg, after, <<from_dict("RecordMessage", after)>>, "none")

\* mutant of map_record_message: the prefix list is consumed, every call pops
\* its first prefix (prefixes.pop(0)) after the rename
map_record_message_consuming(cfg, md) ==
    IF "record" \in DOMAIN md
    THEN LET new_record == rename_items(cfg, md.record)
             after == [md EXCEPT !.record = new_record]
             left == IF "strip_prefixes" \in DOMAIN cfg /\ cfg.strip_prefixes # <<>>
                     THEN [cfg EXCEPT !.strip_prefixes = Tail(@)]
                     ELSE cfg
         IN  Outcome(left, after, <<from_dict("RecordMessage", after)>>, "none")
    ELSE Outcome(cfg, md, <<>>, "KeyError")

\* mutant of map_state_message: the keys of the state value are stripped too
map_state_message_renaming(cfg, md) ==
    LET after == [md EXCEPT !.value = rename_items(cfg, @)]
    IN  Outcome(cfg, after, <<from_dict("StateMessage", after)>>, "none")

\* mutant of map_activate_version_message: nothing is yielded
map_activate_version_message_silent(cfg, md) ==
    Outcome(cfg, md, <<>>, "none")

\* message_dict["schema"]["properties"] raises KeyError on a missing key,
\* before anything is assigned or yielded
map_schema_message(cfg, md) ==
    IF "schema" \in DOMAIN md /\ "properties" \in DOMAIN md.schema
    THEN LET new_properties == rename_items(cfg, md.schema.properties)
             after == [md EXCEPT !.schema.properties = new_properties]
         IN  Outcome(cfg, after, <<from_dict("SchemaMessage", after)>>, "none")
    ELSE Outcome(cfg, md, <<>>, "KeyError")

\* message_dict["record"] raises KeyError on a missing key
map_record_message(cfg, md) ==
    IF "record" \in DOMAIN md
    THEN LET new_record == rename_items(cfg, md.record)
             after == [md EXCEPT !.record = new_record]
         IN  Outcome(cfg, after, <<from_dict("RecordMessage", after)>>, "none")
    ELSE Outcome(cfg, md, <<>>, "KeyError")

map_state_message(cfg, md) ==
    Outcome(cfg, md, <<from_dict("StateMessage", md)>>, "none")

map_activate_version_message(cfg, md) ==
    Outcome(cfg, md, <<from_dict("ActivateVersionMessage", md)>>, "none")

----------------------------------------------------------------------------
(* Actions *)

\* a direct call of strip_prefix
StripPrefix ==
    /\ pc = "call"
    /\ new_field' = strip_prefix(config, field)
    /\ pc' = "returned"
    /\ UNCHANGED <<config, field, line, message_dict, produced, stdin_read,
                   stdout, error>>

\* the handler runs to its yield or to its exception
Handle(o) ==
    /\ config' = o.config
    /\ message_dict' = o.message_dict
    /\ produced' = o.yielded
    /\ error' = o.raised
    /\ pc' = IF o.raised = "none" THEN "write" ELSE "failed"
    /\ UNCHANGED <<field, new_field, line, stdin_read, stdout>>

MapSchemaMessage ==
    /\ pc = "dispatch"
    /\ message_dict.type = "SCHEMA"
    /\ Handle(map_schema_message(config, message_dict))

MapRecordMessage ==
    /\ pc = "dispatch"
    /\ message_dict.type = "RECORD"
    /\ Handle(map_record_message(config, message_dict))

MapStateMessage ==
    /\ pc = "dispatch"
    /\ message_dict.type = "STATE"
    /\ Handle(map_state_message(config, message_dict))

MapActivateVersionMessage ==
    /\ pc = "dispatch"
    /\ message_dict.type = "ACTIVATE_VERSION"
    /\ Handle(map_activate_version_message(config, message_dict))

\* the stream loop reads and decodes the next line
Read ==
    /\ pc = "read"
    /\ Len(stdin_read) < MaxMessages
    /\ \E m \in StreamMessages :
        /\ line' = m
        /\ message_dict' = m
        /\ stdin_read' = Append(stdin_read, m)
    /\ pc' = "dispatch"
    /\ UNCHANGED <<config, field, new_field, produced, stdout, error>>

\* the stream loop writes every produced message, then reads on
Write ==
    /\ pc = "write"
    /\ stdout' = stdout \o produced
    /\ produced' = <<>>
    /\ pc' = "read"
    /\ UNCHANGED <<config, field, new_field, line, message_dict, stdin_read, error>>

\* end of the input stream: the loop ends with success
EndOfStream ==
    /\ pc = "read"
    /\ pc' = "done"
    /\ UNCHANGED <<config, field, new_field, line, message_dict, produced,
                   stdin_read, stdout, error>>

----------------------------------------------------------------------------
(* Specifications *)

\* SpecCall: one call, either of strip_prefix on any field under any
\* configuration, or of a handler on one message of any shape
InitStrip ==
    /\ config \in Configs
    /\ field \in Fields
    /\ pc = "call"
    /\ new_field = <<>>
    /\ line = NoMessage
    /\ message_dict = NoMessage
    /\ produced = <<>>
    /\ stdin_read = <<>>
    /\ stdout = <<>>
    /\ error = "none"

InitMap ==
    /\ config \in MapConfigs
    /\ line \in Messages
    /\ message_dict = line
    /\ stdin_read = <<line>>
    /\ pc = "dispatch"
    /\ field = <<>>
    /\ new_field = <<>>
    /\ produced = <<>>
    /\ stdout = <<>>
    /\ error = "none"

InitCall == InitStrip \/ InitMap

NextCall ==
    \/ StripPrefix
    \/ MapSchemaMessage
    \/ MapRecordMessage
    \/ MapStateMessage
    \/ MapActivateVersionMessage

SpecCall == InitCall /\ [][NextCall]_vars

\* Spec: the stream loop over a sequence of messages
Init ==
    /\ config \in MapConfigs
    /\ pc = "read"
    /\ field = <<>>
    /\ new_field = <<>>
    /\ line = NoMessage
    /\ message_dict = NoMessage
    /\ produced = <<>>
    /\ stdin_read = <<>>
    /\ stdout = <<>>
    /\ error = "none"

Next ==
    \/ Read
    \/ MapSchemaMessage
    \/ MapRecordMessage
    \/ MapStateMessage
    \/ MapActivateVersionMessage
    \/ Write
    \/ EndOfStream

Spec == Init /\ [][Next]_vars

----------------------------------------------------------------------------
(* What the claims speak of, stated without the code's own loops *)

\* the configured prefix list ([] when strip_prefixes is absent)
PrefixList == IF "strip_prefixes" \in DOMAIN config THEN config.strip_prefixes ELSE <<>>

\* p is a literal prefix of f
IsLiteralPrefix(p, f) ==
    /\ Len(p) <= Len(f)
    /\ \A i \in 1..Len(p) : f[i] = p[i]

\* the positions of the prefixes that are literal prefixes of f
Matching(f) == {i \in 1..Len(PrefixList) : IsLiteralPrefix(PrefixList[i], f)}

\* the first of them in list order
FirstMatch(f) == CHOOSE i \in Matching(f) : \A j \in Matching(f) : i <= j

\* f without its first Len(p) characters
Without(f, p) == [i \in 1..(Len(f) - Len(p)) |-> f[i + Len(p)]]

\* the name the contract gives a field
NewName(f) ==
    IF Matching(f) = {} THEN f ELSE Without(f, PrefixList[FirstMatch(f)])

Kinds == {"SCHEMA", "RECORD", "STATE", "ACTIVATE_VERSION"}

KindOf(message) ==
    CASE message.cls = "SchemaMessage" -> "SCHEMA"
      [] message.cls = "RecordMessage" -> "RECORD"
      [] message.cls = "StateMessage" -> "STATE"
      [] message.cls = "ActivateVersionMessage" -> "ACTIVATE_VERSION"

WellFormed(m) ==
    /\ m.type \in Kinds
    /\ m.type = "SCHEMA" => "schema" \in DOMAIN m /\ "properties" \in DOMAIN m.schema
    /\ m.type = "RECORD" => "record" \in DOMAIN m

\* the mapping a SCHEMA or RECORD message dict carries
MappingOf(m) == IF m.type = "SCHEMA" THEN m.schema.properties ELSE m.record

\* a handler has rewritten the SCHEMA or RECORD message in line and yielded
Rewritten ==
    /\ pc = "write"
    /\ line.type \in {"SCHEMA", "RECORD"}
    /\ Len(produced) = 1

InMap == MappingOf(line)

OutMap == MappingOf(produced[1].fields)

\* the entries of the output mapping under a name
Entries(name) == {j \in 1..Len(OutMap) : OutMap[j][1] = name}

\* the input keys that are given a name
Sources(name) == {i \in 1..Len(InMap) : NewName(InMap[i][1]) = name}

NoCollision ==
    \A i, j \in 1..Len(InMap) :
        i # j => NewName(InMap[i][1]) # NewName(InMap[j][1])

----------------------------------------------------------------------------
(* Claims *)

C2_NoMatchUnchanged ==
    /\ (pc = "returned" /\ Matching(field) = {}) => new_field = field
    /\ (pc # "dispatch" /\ line.type \in {"SCHEMA", "RECORD"}
            /\ WellFormed(line) /\ PrefixList = <<>>)
        => (Rewritten /\ OutMap = InMap)

\* C2 witness: a non-empty field that begins like a configured prefix but
\* does not start with it came back unchanged.
C2_Witness ==
    /\ pc = "returned"
    /\ Matching(field) = {}
    /\ \E i \in 1..Len(PrefixList) :
        /\ Len(PrefixList[i]) > 1
        /\ field # <<>>
        /\ field[1] = PrefixList[i][1]
    /\ new_field = field

\* C3 as stated: after a SCHEMA or RECORD rewrite, every input pair (k, v) has
\* exactly one output pair keyed by the new name of k and carrying v, and the
\* counts agree when no two keys are given the same name.
C3_EveryPairKept ==
    Rewritten =>
        /\ \A i \in 1..Len(InMap) :
            Cardinality({j \in Entries(NewName(InMap[i][1])) :
                            OutMap[j][2] = InMap[i][2]}) = 1
        /\ NoCollision => Len(OutMap) = Len(InMap)

\* C3 amended: every input pair (k, v) has exactly one output pair keyed by
\* the new name of k, and it carries v whenever no later input key is given
\* the same name; the counts agree when no two keys are given the same name.
C3_EveryLastPairKept ==
    Rewritten =>
        /\ \A i \in 1..Len(InMap) :
            /\ Cardinality(Entries(NewName(InMap[i][1]))) = 1
            /\ (\A k \in Sources(NewName(InMap[i][1])) : k <= i)
                => \A j \in Entries(NewName(InMap[i][1])) : OutMap[j][2] = InMap[i][2]
        /\ NoCollision => Len(OutMap) = Len(InMap)

\* C3 witness: a record of two fields, one renamed and one not, no collision,
\* came out with two fields.
C3_Witness ==
    /\ Rewritten
    /\ line.type = "RECORD"
    /\ Len(InMap) = 2
    /\ NoCollision
    /\ \E i \in 1..2 : NewName(InMap[i][1]) # InMap[i][1]
    /\ \E i \in 1..2 : NewName(InMap[i][1]) = InMap[i][1]
    /\ Len(OutMap) = 2

\* C4: when two distinct keys of the mapping are given the same name, the
\* handler raises nothing, the output holds exactly one entry under that name
\* and its value is that of the last such key in iteration order.
C4_LastWriteWins ==
    (pc # "dispatch" /\ line.type \in {"SCHEMA", "RECORD"} /\ WellFormed(line))
        => /\ Rewritten
           /\ error = "none"
           /\ \A i, k \in 1..Len(InMap) :
                (i < k /\ NewName(InMap[i][1]) = NewName(InMap[k][1])
                    /\ \A l \in Sources(NewName(InMap[k][1])) : l <= k)
                => /\ Cardinality(Entries(NewName(InMap[k][1]))) = 1
                   /\ \A j \in Entries(NewName(InMap[k][1])) :
                        OutMap[j][2] = InMap[k][2]

\* C4 witness: two keys with different values collided and only the later
\* value is left in the output.
C4_Witness ==
    /\ Rewritten
    /\ Len(InMap) = 2
    /\ InMap[1][1] # InMap[2][1]
    /\ NewName(InMap[1][1]) = NewName(InMap[2][1])
    /\ InMap[1][2] # InMap[2][2]
    /\ Len(OutMap) = 1
    /\ OutMap[1][2] = InMap[2][2]

\* C5: a STATE or ACTIVATE_VERSION message yields exactly one message, of its
\* own class, whose fields equal the input message, whatever the prefixes.
C5_PassThrough ==
    (pc # "dispatch" /\ line.type \in {"STATE", "ACTIVATE_VERSION"})
        => /\ pc = "write"
           /\ Len(produced) = 1
           /\ KindOf(produced[1]) = line.type
           /\ produced[1].fields = line
           /\ message_dict = line

\* C5 witness: a STATE message whose value has a key starting with a
\* configured prefix went through with that key as it was.
C5_Witness ==
    /\ pc = "write"
    /\ line.type = "STATE"
    /\ \E i \in 1..Len(line.value) : NewName(line.value[i][1]) # line.value[i][1]
    /\ produced = <<[cls |-> "StateMessage", fields |-> line]>>

\* C6: a SCHEMA or RECORD rewrite changes only the keys of the mapping: the
\* yielded message has the fields of the input, every field but the mapping
\* equal to the input's (key_properties included), and every pair of the
\* output mapping carries, untouched, the value of an input pair that was
\* given that name.
C6_OnlyKeysChange ==
    Rewritten =>
        LET out == produced[1].fields
        IN  /\ DOMAIN out = DOMAIN line
            /\ \A k \in DOMAIN line \ {"schema", "record"} : out[k] = line[k]
            /\ line.type = "SCHEMA" =>
                /\ DOMAIN out.schema = DOMAIN line.schema
                /\ \A k \in DOMAIN line.schema \ {"properties"} :
                    out.schema[k] = line.schema[k]
            /\ \A j \in 1..Len(OutMap) :
                \E i \in Sources(OutMap[j][1]) : OutMap[j][2] = InMap[i][2]

\* C6 witness: a SCHEMA message whose key property was renamed in properties
\* and kept its name in key_properties, next to a nested schema value that
\* kept its own property names.
C6_Witness ==
    /\ Rewritten
    /\ line.type = "SCHEMA"
    /\ Len(line.key_properties) = 1
    /\ NewName(line.key_properties[1]) # line.key_properties[1]
    /\ produced[1].fields.key_properties = line.key_properties
    /\ OutMap[1][1] = NewName(line.key_properties[1])
    /\ InMap[1][2] \notin {[type |-> "integer"]}
    /\ OutMap[1][2] = InMap[1][2]

\* C10: a field name equal to the first configured prefix that matches it is
\* renamed to the empty string: the handler raises nothing, the output mapping
\* has exactly one entry keyed by the empty string (however many such fields
\* there are), and the old name is a key of the output only if some input key
\* is given that name.
C10_WholeNameStripped ==
    (pc # "dispatch" /\ line.type \in {"SCHEMA", "RECORD"} /\ WellFormed(line))
        => /\ Rewritten
           /\ error = "none"
           /\ \A i \in 1..Len(InMap) :
                (Matching(InMap[i][1]) # {}
                    /\ PrefixList[FirstMatch(InMap[i][1])] = InMap[i][1])
                => /\ Cardinality(Entries(<<>>)) = 1
                   /\ Entries(InMap[i][1]) # {} => Sources(InMap[i][1]) # {}

\* C10 witness: two fields, each equal to a different prefix, collided on the
\* empty key.
C10_Witness ==
    /\ Rewritten
    /\ line.type = "RECORD"
    /\ Len(InMap) = 2
    /\ \A i \in 1..2 :
        /\ InMap[i][1] # <<>>
        /\ Matching(InMap[i][1]) # {}
        /\ PrefixList[FirstMatch(InMap[i][1])] = InMap[i][1]
    /\ OutMap = << <<<<>>, InMap[2][2]>> >>

\* C7: while every message read is well formed, the run does not fail, each
\* message read has yielded exactly one message of its own kind, that message
\* is on the output before the next one is read, and the output has the
\* length and the order of kinds of the input.
C7_OneOutputPerInput ==
    (\A i \in 1..Len(stdin_read) : WellFormed(stdin_read[i]))
        => /\ pc # "failed"
           /\ error = "none"
           /\ pc \in {"read", "done"} =>
                (Len(stdout) = Len(stdin_read) /\ produced = <<>>)
           /\ pc = "dispatch" =>
                (Len(stdout) = Len(stdin_read) - 1 /\ produced = <<>>)
           /\ pc = "write" =>
                /\ Len(stdout) = Len(stdin_read) - 1
                /\ Len(produced) = 1
                /\ KindOf(produced[1]) = line.type
           /\ \A i \in 1..Len(stdout) : KindOf(stdout[i]) = stdin_read[i].type

\* C7 witness: a finished run of at least three messages of three kinds, as
\* many written as read.
C7_Witness ==
    /\ pc = "done"
    /\ Len(stdin_read) >= 3
    /\ Len(stdout) = Len(stdin_read)
    /\ Cardinality({stdin_read[i].type : i \in 1..Len(stdin_read)}) >= 3
    /\ \A i \in 1..Len(stdout) : KindOf(stdout[i]) = stdin_read[i].type

\* C8: a RECORD message without record, or a SCHEMA message without
\* schema.properties, is the last message the run reads: once its handler has
\* run, the run has failed with an exception and nothing was yielded for it,
\* and the output holds one message for each message read before it.
C8_MalformedRejected ==
    \A i \in 1..Len(stdin_read) :
        ~WellFormed(stdin_read[i])
            => /\ i = Len(stdin_read)
               /\ pc \in {"dispatch", "failed"}
               /\ pc = "failed" => error # "none"
               /\ produced = <<>>
               /\ Len(stdout) = i - 1

\* C8 witness: the run failed on a RECORD message without record, after it
\* had written the output of an earlier message.
C8_Witness ==
    /\ pc = "failed"
    /\ error = "KeyError"
    /\ Len(stdin_read) >= 2
    /\ stdin_read[Len(stdin_read)] = RecordNoRecord
    /\ Len(stdout) = Len(stdin_read) - 1

\* what a message yields when it is the only message of a run under cfg
Alone(cfg, m) ==
    CASE m.type = "SCHEMA" -> map_schema_message(cfg, m).yielded
      [] m.type = "RECORD" -> map_record_message(cfg, m).yielded
      [] m.type = "STATE" -> map_state_message(cfg, m).yielded
      [] m.type = "ACTIVATE_VERSION" -> map_activate_version_message(cfg, m).yielded

\* C9: no step changes the configuration, and the output of a message depends
\* on that message and the prefix list only: equal messages read at different
\* places of a run have equal outputs, each the output the message has when
\* it is the only message of a run.
C9_OutputDependsOnMessageOnly ==
    /\ [][config' = config]_vars
    /\ [](\A i, j \in 1..Len(stdout) :
            stdin_read[i] = stdin_read[j] => stdout[i] = stdout[j])
    /\ [](\A i \in 1..Len(stdout) : <<stdout[i]>> = Alone(config, stdin_read[i]))

\* C9 witness: the same RECORD message was read first and third, with another
\* message between them, its fields were renamed, and both outputs are equal.
C9_Witness ==
    /\ Len(stdout) >= 3
    /\ stdin_read[1].type = "RECORD"
    /\ stdin_read[1] = stdin_read[3]
    /\ stdin_read[2] # stdin_read[1]
    /\ stdout[1].fields # stdin_read[1]
    /\ stdout[1] = stdout[3]

====
